---- MODULE Spec2Model ----
(***************************************************************************)
(* A model of create_library.py: ChatParser (paragraphs -> ChatMessage     *)
(* list), QAGrouper (ChatMessage list -> question/answer pairs) and the    *)
(* top-level main() that feeds the pairs to the three sinks.               *)
(*                                                                         *)
(* Representation.  TLC strings are atomic and ASCII only, so              *)
(*   - a text is a sequence of runs of characters, each run a string; the  *)
(*     Cyrillic words of the source are transliterated ("ответвиолетты"    *)
(*     is the two runs "otvet", "violetty");                               *)
(*   - message_id / reply_to are the decimal strings matched by (\d+);     *)
(*     they are modelled by the number they spell, 0 standing for the      *)
(*     empty string "" (only ids of one digit are drawn, for which         *)
(*     Python's string order and the numeric order agree);                 *)
(*   - message_number is a sequence of digits, <<>> being "";              *)
(*   - a Python object reference to a ChatMessage is its index in          *)
(*     self.messages.                                                      *)
(***************************************************************************)
EXTENDS Naturals, Sequences, FiniteSets, TLC

VARIABLES
    messages,             \* the ChatMessage list: parse_word_document's, QAGrouper's
    pc,                   \* control position of the running operation
    current_message,      \* parse_word_document: local, <<>> is None (line 47)
    paragraphs_read,      \* parse_word_document: paragraphs consumed by the for loop
    paragraph_text,       \* parse_word_document: local text of the loop (line 50)
    log,                  \* history: what main() has executed, in order
    violetta_answers,     \* group_questions_answers: local list (line 177)
    next_answer,          \* position of the for loop of line 183
    qa_pairs,             \* group_questions_answers: local list (line 180)
    processed_questions,  \* group_questions_answers: local set (line 181)
    threads,              \* history: per emitted pair, the threads it was built from
    returned,             \* history: the values returned by the finished calls
    all_tags,             \* _sort_tags_alphabetical: the argument tags (a set)
    tags_list,            \* _sort_tags_alphabetical: local list (line 413)
    sorted_tags           \* _sort_tags_alphabetical: the list returned

vars == <<messages, pc, current_message, paragraphs_read, paragraph_text, log,
          violetta_answers,
          next_answer, qa_pairs, processed_questions, threads, returned,
          all_tags, tags_list, sorted_tags>>

tags_vars == <<all_tags, tags_list, sorted_tags>>

parser_vars == <<current_message, paragraphs_read, paragraph_text>>

grouper_vars == <<violetta_answers, next_answer, qa_pairs, processed_questions,
                  threads, returned>>

----------------------------------------------------------------------------
(* Bounds of the model *)

NumMsgs == 4
MaxId == 2
MaxCalls == 2
MaxParagraphs == 5

----------------------------------------------------------------------------
(* Generic helpers *)

Range(s) == {s[i] : i \in 1..Len(s)}

RECURSIVE Flatten(_)
Flatten(ss) == IF ss = <<>> THEN <<>> ELSE Head(ss) \o Flatten(Tail(ss))

(* The indices 1..n as a sequence *)
Indices(n) == [i \in 1..n |-> i]

RECURSIVE InsertSorted(_, _, _)
(* x goes after every element whose key is <= key[x]: list.sort is stable *)
InsertSorted(s, x, key) ==
    IF s = <<>> THEN <<x>>
    ELSE IF key[Head(s)] <= key[x]
         THEN <<Head(s)>> \o InsertSorted(Tail(s), x, key)
         ELSE <<x>> \o s

RECURSIVE SortBy(_, _)
(* list.sort(key=...) and sorted(): key is a function on the elements of s *)
SortBy(s, key) ==
    IF s = <<>> THEN <<>>
    ELSE InsertSorted(SortBy(SubSeq(s, 1, Len(s) - 1), key), s[Len(s)], key)

----------------------------------------------------------------------------
(* Characters, str.lower and the substring test *)

Lower(c) ==
    CASE c = "Otvet" -> "otvet" [] c = "OTVET" -> "otvet"
      [] c = "Violetty" -> "violetty" [] c = "VIOLETTY" -> "violetty"
      [] c = "Tema" -> "tema" [] c = "Motiv" -> "motiv"
      [] OTHER -> c

LowerStr(s) == [i \in 1..Len(s) |-> Lower(s[i])]

(* 'sub in s' of Python *)
Contains(s, sub) ==
    \E i \in 0..Len(s) :
        /\ i + Len(sub) <= Len(s)
        /\ SubSeq(s, i + 1, i + Len(sub)) = sub

AnswerMarker == <<"otvet", "violetty">>

----------------------------------------------------------------------------
(* Paragraph texts: a text is a sequence of tokens, a token has a kind and  *)
(* the characters of its value.                                             *)

Token(kind, val) == [kind |-> kind, val |-> val]

(* The glyphs U+2015 (horizontal bar) and U+2500 (box drawing) *)
Bar == "bar"
Box == "box"

(* The runs of a text that can hold a glyph, in order: the numbers and names *)
(* of the start and metadata tokens hold none                                *)
Flat(text) ==
    Flatten([i \in 1..Len(text) |->
                IF text[i].kind \in {"word", "tag", "rule"} THEN text[i].val ELSE <<>>])

(* pattern.search(text) is not None, for the pattern that matches the tokens *)
(* of that kind                                                              *)
HasKind(text, kind) == \E i \in 1..Len(text) : text[i].kind = kind

(* pattern.search(text).group(1): the value of the first match *)
FirstOf(text, kind) ==
    text[CHOOSE i \in 1..Len(text) :
            /\ text[i].kind = kind
            /\ \A j \in 1..i - 1 : text[j].kind # kind].val

Word(chars) == Token("word", chars)
Hashtag(chars) == Token("tag", chars)

TagAnswer == <<"#", "Otvet", "Violetty">>
TagAnswerLower == <<"#", "otvet", "violetty">>
TagTopic == <<"#", "tema">>
TagMotive == <<"#", "motiv">>

----------------------------------------------------------------------------
(* ChatParser *)

IsMessageStart(text) ==
    \/ HasKind(text, "start")
    \/ Contains(Flat(text), <<Bar, Bar, Bar, Bar, Bar, Bar>>)

CreateNewMessage(text) ==
    [message_number     |-> IF HasKind(text, "start") THEN FirstOf(text, "start") ELSE <<>>,
     sender             |-> "",
     date               |-> <<>>,
     message_id         |-> 0,
     reply_to           |-> 0,
     text               |-> <<>>,
     tags               |-> <<>>,
     is_violetta_answer |-> FALSE]

(* patterns['tags'].findall(text) *)
FindAllTags(text) ==
    LET IsTag(token) == token.kind = "tag"
        found == SelectSeq(text, IsTag)
    IN  [i \in 1..Len(found) |-> found[i].val]

(* list(set(tags)): the distinct tags, in an order the hashing decides *)
UniqueTagLists(tags) ==
    {order \in [1..Cardinality(Range(tags)) -> Range(tags)] :
        \A i, j \in DOMAIN order : i # j => order[i] # order[j]}

IsMetadata(text) ==
    \/ HasKind(text, "sender")
    \/ HasKind(text, "date")
    \/ HasKind(text, "id")
    \/ HasKind(text, "reply")

(* Mutant: a field is assigned at every match, so the last match wins *)
ProcessMessageContentLastWins(message, text, unique_tags) ==
    IF \E separator \in {<<Bar, Bar>>, <<Box>>, <<Bar>>} : Contains(Flat(text), separator)
    THEN message
    ELSE LET with_sender ==
                 IF HasKind(text, "sender")
                 THEN [message EXCEPT !.sender = FirstOf(text, "sender")[1]]
                 ELSE message
             with_date ==
                 IF HasKind(text, "date")
                 THEN [with_sender EXCEPT !.date = FirstOf(text, "date")]
                 ELSE with_sender
             with_id ==
                 IF HasKind(text, "id")
                 THEN [with_date EXCEPT !.message_id = FirstOf(text, "id")[1]]
                 ELSE with_date
             with_reply ==
                 IF HasKind(text, "reply")
                 THEN [with_id EXCEPT !.reply_to = FirstOf(text, "reply")[1]]
                 ELSE with_id
         IN  IF IsMetadata(text) THEN with_reply
             ELSE [with_reply EXCEPT !.text = Append(@, text),
                                     !.tags = @ \o unique_tags]

(* The message after _process_message_content(message, text); unique_tags is *)
(* the list(set(tags)) of line 140.  message.text is the sequence of the     *)
(* lines joined by '\n'.                                                     *)
ProcessMessageContent(message, text, unique_tags) ==
    IF \E separator \in {<<Bar, Bar>>, <<Box>>, <<Bar>>} : Contains(Flat(text), separator)
    THEN message
    ELSE LET with_sender ==
                 IF message.sender = "" /\ HasKind(text, "sender")
                 THEN [message EXCEPT !.sender = FirstOf(text, "sender")[1]]
                 ELSE message
             with_date ==
                 IF with_sender.date = <<>> /\ HasKind(text, "date")
                 THEN [with_sender EXCEPT !.date = FirstOf(text, "date")]
                 ELSE with_sender
             with_id ==
                 IF with_date.message_id = 0 /\ HasKind(text, "id")
                 THEN [with_date EXCEPT !.message_id = FirstOf(text, "id")[1]]
                 ELSE with_date
             with_reply ==
                 IF with_id.reply_to = 0 /\ HasKind(text, "reply")
                 THEN [with_id EXCEPT !.reply_to = FirstOf(text, "reply")[1]]
                 ELSE with_id
         IN  IF IsMetadata(text) THEN with_reply
             ELSE [with_reply EXCEPT !.text = Append(@, text),
                                     !.tags = @ \o unique_tags]

----------------------------------------------------------------------------
(* ChatParser._identify_violetta_answers *)

(* Mutant: the tag is compared without lower() *)
HasAnswerTagCaseSensitive(tags) ==
    \E i \in 1..Len(tags) : Contains(tags[i], AnswerMarker)

HasAnswerTag(tags) ==
    \E i \in 1..Len(tags) : Contains(LowerStr(tags[i]), AnswerMarker)

IdentifyViolettaAnswers(msgs) ==
    [i \in 1..Len(msgs) |->
        [msgs[i] EXCEPT !.is_violetta_answer = HasAnswerTag(msgs[i].tags)]]

----------------------------------------------------------------------------
(* QAGrouper *)

(* int(x.message_number) if x.message_number.isdigit() else 0 *)
IsDigit(num) == num # <<>> /\ \A i \in 1..Len(num) : num[i] \in 0..9

RECURSIVE ToInt(_)
ToInt(num) ==
    IF num = <<>> THEN 0 ELSE 10 * ToInt(SubSeq(num, 1, Len(num) - 1)) + num[Len(num)]

(* Mutant: a message without a number sorts last instead of first *)
SortKeyUnnumberedLast(msg) ==
    IF IsDigit(msg.message_number) THEN ToInt(msg.message_number) ELSE 1000

(* the sort key of lines 230 and 244 *)
SortKey(msg) ==
    IF IsDigit(msg.message_number) THEN ToInt(msg.message_number) ELSE 0

(* dict comprehension of __init__: a later message overwrites an earlier one *)
MessagesById(msgs) ==
    [id \in {msgs[i].message_id : i \in 1..Len(msgs)} \ {0} |->
        CHOOSE i \in 1..Len(msgs) :
            /\ msgs[i].message_id = id
            /\ \A j \in 1..Len(msgs) : msgs[j].message_id = id => j <= i]

(* Mutant: the thread is collected without comparing the sender *)
FindQuestionThreadAnySender(msgs, start_message_id) ==
    LET by_id == MessagesById(msgs)
        sort_key == [i \in 1..Len(msgs) |-> SortKey(msgs[i])]
    IN  IF start_message_id \notin DOMAIN by_id THEN <<>>
        ELSE LET start == by_id[start_message_id]
                 parent_id == msgs[start].reply_to
                 Sibling(i) == /\ msgs[i].reply_to = parent_id
                               /\ ~msgs[i].is_violetta_answer
             IN  IF parent_id = 0 THEN <<start>>
                 ELSE SortBy(SelectSeq(Indices(Len(msgs)), Sibling), sort_key)

(* Mutant: the message the thread replies to is put in front of the thread *)
FindQuestionThreadWithParent(msgs, start_message_id) ==
    LET by_id == MessagesById(msgs)
        sort_key == [i \in 1..Len(msgs) |-> SortKey(msgs[i])]
    IN  IF start_message_id \notin DOMAIN by_id THEN <<>>
        ELSE LET start == by_id[start_message_id]
                 parent_id == msgs[start].reply_to
                 sender == msgs[start].sender
                 Sibling(i) == /\ msgs[i].reply_to = parent_id
                               /\ msgs[i].sender = sender
                               /\ ~msgs[i].is_violetta_answer
             IN  IF parent_id = 0 THEN <<start>>
                 ELSE (IF parent_id \in DOMAIN by_id THEN <<by_id[parent_id]>> ELSE <<>>)
                          \o SortBy(SelectSeq(Indices(Len(msgs)), Sibling), sort_key)

FindQuestionThread(msgs, start_message_id) ==
    LET by_id == MessagesById(msgs)
        sort_key == [i \in 1..Len(msgs) |-> SortKey(msgs[i])]
    IN  IF start_message_id \notin DOMAIN by_id THEN <<>>
        ELSE LET start == by_id[start_message_id]
                 parent_id == msgs[start].reply_to
                 sender == msgs[start].sender
                 Sibling(i) == /\ msgs[i].reply_to = parent_id
                               /\ msgs[i].sender = sender
                               /\ ~msgs[i].is_violetta_answer
             IN  IF parent_id = 0 THEN <<start>>
                 ELSE SortBy(SelectSeq(Indices(Len(msgs)), Sibling), sort_key)

ThreadIds(msgs, thread) ==
    LET HasId(i) == msgs[i].message_id # 0
        kept == SelectSeq(thread, HasId)
    IN  [k \in 1..Len(kept) |-> msgs[kept[k]].message_id]

(* Mutant: only the answers to the first message of the thread are collected *)
FindAnswerThreadOfFirst(msgs, question_thread) ==
    LET question_ids == ThreadIds(msgs, question_thread)
        sort_key == [i \in 1..Len(msgs) |-> SortKey(msgs[i])]
        Answers(i) == /\ msgs[i].is_violetta_answer
                      /\ question_ids # <<>>
                      /\ msgs[i].reply_to = question_ids[1]
    IN  SortBy(SelectSeq(Indices(Len(msgs)), Answers), sort_key)

FindAnswerThread(msgs, question_thread) ==
    LET question_ids == ThreadIds(msgs, question_thread)
        sort_key == [i \in 1..Len(msgs) |-> SortKey(msgs[i])]
        Answers(i) == /\ msgs[i].is_violetta_answer
                      /\ msgs[i].reply_to \in Range(question_ids)
    IN  SortBy(SelectSeq(Indices(Len(msgs)), Answers), sort_key)

(* "\n\n".join of the non-empty texts: the sequence of the joined texts *)
JoinTexts(msgs, thread) ==
    LET HasText(i) == msgs[i].text # <<>>
        kept == SelectSeq(thread, HasText)
    IN  [k \in 1..Len(kept) |-> msgs[kept[k]].text]

(* Mutant: the tags of the question thread are collected as well *)
CreateQAPairAllTags(msgs, question_thread, answer_thread) ==
    [question_ids    |-> ThreadIds(msgs, question_thread),
     question_text   |-> JoinTexts(msgs, question_thread),
     question_sender |-> IF question_thread # <<>>
                         THEN msgs[question_thread[1]].sender ELSE "",
     question_date   |-> IF question_thread # <<>>
                         THEN msgs[question_thread[1]].date ELSE "",
     answer_ids      |-> ThreadIds(msgs, answer_thread),
     answer_text     |-> JoinTexts(msgs, answer_thread),
     tags            |-> UNION {Range(msgs[(question_thread \o answer_thread)[k]].tags) :
                                    k \in 1..Len(question_thread \o answer_thread)},
     answer_date     |-> IF answer_thread # <<>>
                         THEN msgs[answer_thread[Len(answer_thread)]].date ELSE ""]

CreateQAPair(msgs, question_thread, answer_thread) ==
    [question_ids    |-> ThreadIds(msgs, question_thread),
     question_text   |-> JoinTexts(msgs, question_thread),
     question_sender |-> IF question_thread # <<>>
                         THEN msgs[question_thread[1]].sender ELSE "",
     question_date   |-> IF question_thread # <<>>
                         THEN msgs[question_thread[1]].date ELSE "",
     answer_ids      |-> ThreadIds(msgs, answer_thread),
     answer_text     |-> JoinTexts(msgs, answer_thread),
     tags            |-> UNION {Range(msgs[answer_thread[k]].tags) :
                                    k \in 1..Len(answer_thread)},
     answer_date     |-> IF answer_thread # <<>>
                         THEN msgs[answer_thread[Len(answer_thread)]].date ELSE ""]

(* tuple(sorted(ids)) *)
QuestionKey(msgs, question_thread) ==
    LET ids == ThreadIds(msgs, question_thread)
    IN  SortBy(ids, [id \in Range(ids) |-> id])

(* The for loop of lines 183-204 as a function of the message list: the     *)
(* pairs appended from the k-th official answer on.                          *)
RECURSIVE GroupFrom(_, _, _, _, _)
GroupFrom(msgs, answers, k, pairs, processed) ==
    IF k > Len(answers) THEN pairs
    ELSE LET answer == msgs[answers[k]]
             question_thread == FindQuestionThread(msgs, answer.reply_to)
             question_key == QuestionKey(msgs, question_thread)
         IN  IF \/ answer.reply_to = 0
                \/ question_thread = <<>>
                \/ question_key \in processed
             THEN GroupFrom(msgs, answers, k + 1, pairs, processed)
             ELSE GroupFrom(msgs, answers, k + 1,
                      Append(pairs, CreateQAPair(msgs, question_thread,
                                        FindAnswerThread(msgs, question_thread))),
                      processed \cup {question_key})

(* QAGrouper(msgs).group_questions_answers() *)
GroupQuestionsAnswers(msgs) ==
    LET IsAnswer(i) == msgs[i].is_violetta_answer
    IN  GroupFrom(msgs, SelectSeq(Indices(Len(msgs)), IsAnswer), 1, <<>>, {})

----------------------------------------------------------------------------
(* The message lists handed to QAGrouper *)

Senders == {"Alice", "Bob"}

(* The "Сообщение #N" lines of the transcript: the numbers of neighbours    *)
(* are swapped ("2", "1"), every third message was started by a divider     *)
(* line and has no number, every fourth is written with a leading zero.     *)
Numbering ==
    [k \in 1..NumMsgs |->
        IF k % 3 = 0 THEN <<>>
        ELSE IF k % 4 = 0 THEN <<0, k - 1>>
        ELSE IF k % 2 = 1 THEN <<k + 1>> ELSE <<k - 1>>]

(* The "ID:" lines of the transcript: every message has its own id (the     *)
(* ids starting at 1, or at 2 so that no message has id 1), or the ids run  *)
(* 1..MaxId, the next message has no ID line, and the ids of the messages   *)
(* after it repeat earlier ones.                                            *)
IdLines ==
    { [k \in 1..NumMsgs |-> k],
      [k \in 1..NumMsgs |-> k + 1],
      [k \in 1..NumMsgs |-> IF k <= MaxId THEN k
                            ELSE IF k = MaxId + 1 THEN 0
                            ELSE ((k - MaxId - 2) % MaxId) + 1] }

(* The hashtags of the body of message k *)
TagsOf(k, official) ==
    IF official
    THEN CASE k % 3 = 0 -> <<TagAnswer>>
           [] k % 3 = 1 -> <<TagMotive, TagAnswerLower>>
           [] OTHER     -> <<TagAnswerLower, TagTopic, TagAnswerLower>>
    ELSE IF k % 2 = 0 THEN <<>> ELSE <<TagTopic>>

MessageShapes == [sender : Senders, reply_to : 0..MaxId, official : BOOLEAN]

MakeMessage(shape, number, id, k) ==
    [message_number     |-> number,
     sender             |-> shape.sender,
     date               |-> <<"d", ToString(k)>>,
     message_id         |-> id,
     reply_to           |-> shape.reply_to,
     text               |-> << <<Word(<<"w", ToString(k)>>)>> \o
                               [i \in 1..Len(TagsOf(k, shape.official)) |->
                                   Hashtag(TagsOf(k, shape.official)[i])] >>,
     tags               |-> TagsOf(k, shape.official),
     is_violetta_answer |-> HasAnswerTag(TagsOf(k, shape.official))]

(* MakeMessage, tabulated *)
MessageTable ==
    [k \in 1..NumMsgs, id \in UNION {Range(i) : i \in IdLines},
     shape \in MessageShapes |-> MakeMessage(shape, Numbering[k], id, k)]

MessageList(shapes, ids) ==
    [k \in 1..NumMsgs |-> MessageTable[k, ids[k], shapes[k]]]

----------------------------------------------------------------------------
(* QAGrouper.group_questions_answers, one action per step *)

(* No call of _sort_tags_alphabetical has been made *)
TagsIdle ==
    /\ all_tags = {}
    /\ tags_list = <<>>
    /\ sorted_tags = <<>>

(* No call of group_questions_answers has been made *)
GrouperIdle ==
    /\ violetta_answers = <<>>
    /\ next_answer = 0
    /\ qa_pairs = <<>>
    /\ processed_questions = {}
    /\ threads = <<>>
    /\ returned = <<>>

(* QAGrouper(messages), lines 168-170, for the message lists above *)
Init ==
    /\ \E shapes \in [1..NumMsgs -> MessageShapes], ids \in IdLines :
            messages = MessageList(shapes, ids)
    /\ pc = "idle"
    /\ current_message = <<>>
    /\ paragraphs_read = 0
    /\ paragraph_text = <<>>
    /\ log = <<>>
    /\ GrouperIdle
    /\ TagsIdle

(* Mutant: processed_questions outlives the call (an attribute, not a local) *)
BeginCallKeepProcessed ==
    /\ LET IsAnswer(i) == messages[i].is_violetta_answer
       IN  violetta_answers' = SelectSeq(Indices(Len(messages)), IsAnswer)
    /\ next_answer' = 1
    /\ qa_pairs' = <<>>
    /\ threads' = <<>>
    /\ pc' = "loop"
    /\ UNCHANGED <<tags_vars, messages, returned, processed_questions, parser_vars, log>>

(* lines 177-181 *)
BeginCall ==
    /\ LET IsAnswer(i) == messages[i].is_violetta_answer
       IN  violetta_answers' = SelectSeq(Indices(Len(messages)), IsAnswer)
    /\ next_answer' = 1
    /\ qa_pairs' = <<>>
    /\ processed_questions' = {}
    /\ threads' = <<>>
    /\ pc' = "loop"
    /\ UNCHANGED <<tags_vars, messages, returned, parser_vars, log>>

Call ==
    /\ pc = "idle"
    /\ returned = <<>>
    /\ BeginCall

CallAgain ==
    /\ pc = "idle"
    /\ returned # <<>>
    /\ Len(returned) < MaxCalls
    /\ BeginCall

InLoop == pc = "loop" /\ next_answer <= Len(violetta_answers)

Answer == messages[violetta_answers[next_answer]]

Continue ==
    /\ next_answer' = next_answer + 1
    /\ UNCHANGED <<tags_vars, messages, pc, violetta_answers, qa_pairs, processed_questions,
                   threads, returned, parser_vars, log>>

(* lines 184-185 *)
SkipNoReply ==
    /\ InLoop
    /\ Answer.reply_to = 0
    /\ Continue

(* lines 187-191 *)
SkipNoThread ==
    /\ InLoop
    /\ Answer.reply_to # 0
    /\ FindQuestionThread(messages, Answer.reply_to) = <<>>
    /\ Continue

(* lines 193-196 *)
SkipProcessed ==
    /\ InLoop
    /\ Answer.reply_to # 0
    /\ LET question_thread == FindQuestionThread(messages, Answer.reply_to)
       IN  /\ question_thread # <<>>
           /\ QuestionKey(messages, question_thread) \in processed_questions
    /\ Continue

(* Mutant: the pair is appended without consulting processed_questions *)
EmitPairNoDedup ==
    /\ InLoop
    /\ Answer.reply_to # 0
    /\ LET question_thread == FindQuestionThread(messages, Answer.reply_to)
           question_key == QuestionKey(messages, question_thread)
           answer_thread == FindAnswerThread(messages, question_thread)
       IN  /\ question_thread # <<>>
           /\ processed_questions' = processed_questions \cup {question_key}
           /\ qa_pairs' = Append(qa_pairs,
                                 CreateQAPair(messages, question_thread, answer_thread))
           /\ threads' = Append(threads,
                                [answer          |-> violetta_answers[next_answer],
                                 question_thread |-> question_thread,
                                 answer_thread   |-> answer_thread])
    /\ next_answer' = next_answer + 1
    /\ UNCHANGED <<tags_vars, messages, pc, violetta_answers, returned, parser_vars, log>>

(* Mutant: the pair is put in front of the list instead of appended *)
EmitPairInFront ==
    /\ InLoop
    /\ Answer.reply_to # 0
    /\ LET question_thread == FindQuestionThread(messages, Answer.reply_to)
           question_key == QuestionKey(messages, question_thread)
           answer_thread == FindAnswerThread(messages, question_thread)
       IN  /\ question_thread # <<>>
           /\ question_key \notin processed_questions
           /\ processed_questions' = processed_questions \cup {question_key}
           /\ qa_pairs' = <<CreateQAPair(messages, question_thread, answer_thread)>>
                              \o qa_pairs
           /\ threads' = <<[answer          |-> violetta_answers[next_answer],
                            question_thread |-> question_thread,
                            answer_thread   |-> answer_thread]>> \o threads
    /\ next_answer' = next_answer + 1
    /\ UNCHANGED <<tags_vars, messages, pc, violetta_answers, returned, parser_vars, log>>

(* Mutant: the question thread is sorted in place, in self.messages *)
EmitPairSortsMessages ==
    /\ InLoop
    /\ Answer.reply_to # 0
    /\ LET question_thread == FindQuestionThread(messages, Answer.reply_to)
           question_key == QuestionKey(messages, question_thread)
           answer_thread == FindAnswerThread(messages, question_thread)
       IN  /\ question_thread # <<>>
           /\ question_key \notin processed_questions
           /\ processed_questions' = processed_questions \cup {question_key}
           /\ qa_pairs' = Append(qa_pairs,
                                 CreateQAPair(messages, question_thread, answer_thread))
           /\ threads' = Append(threads,
                                [answer          |-> violetta_answers[next_answer],
                                 question_thread |-> question_thread,
                                 answer_thread   |-> answer_thread])
    /\ messages' = SortBy(messages, [msg \in Range(messages) |-> SortKey(msg)])
    /\ next_answer' = next_answer + 1
    /\ UNCHANGED <<tags_vars, pc, violetta_answers, returned, parser_vars, log>>

(* lines 193-204 *)
EmitPair ==
    /\ InLoop
    /\ Answer.reply_to # 0
    /\ LET question_thread == FindQuestionThread(messages, Answer.reply_to)
           question_key == QuestionKey(messages, question_thread)
           answer_thread == FindAnswerThread(messages, question_thread)
       IN  /\ question_thread # <<>>
           /\ question_key \notin processed_questions
           /\ processed_questions' = processed_questions \cup {question_key}
           /\ qa_pairs' = Append(qa_pairs,
                                 CreateQAPair(messages, question_thread, answer_thread))
           /\ threads' = Append(threads,
                                [answer          |-> violetta_answers[next_answer],
                                 question_thread |-> question_thread,
                                 answer_thread   |-> answer_thread])
    /\ next_answer' = next_answer + 1
    /\ UNCHANGED <<tags_vars, messages, pc, violetta_answers, returned, parser_vars, log>>

(* lines 206-207 *)
Return ==
    /\ pc = "loop"
    /\ next_answer > Len(violetta_answers)
    /\ returned' = Append(returned, qa_pairs)
    /\ pc' = "idle"
    /\ UNCHANGED <<tags_vars, messages, violetta_answers, next_answer, qa_pairs,
                   processed_questions, threads, parser_vars, log>>

NextRerun == Call \/ CallAgain \/ SkipNoReply \/ SkipNoThread \/ SkipProcessed
                \/ EmitPair \/ Return

(* A QAGrouper whose group_questions_answers is called up to MaxCalls times *)
SpecRerun == Init /\ [][NextRerun]_vars

Next == Call \/ SkipNoReply \/ SkipNoThread \/ SkipProcessed \/ EmitPair \/ Return

Spec == Init /\ [][Next]_vars

----------------------------------------------------------------------------
(* ChatParser.parse_word_document, one action per paragraph of the document *)

StartLine == <<Token("start", <<1>>)>>
DividerLine == <<Token("rule", <<Bar, Bar, Bar, Bar, Bar, Bar>>)>>
DashLine == <<Token("rule", <<Bar>>)>>
BoxLine == <<Token("rule", <<Box, Box, Box>>)>>
HeaderLine == <<Token("sender", <<"Alice">>), Token("date", <<"d", "1">>), Token("id", <<1>>)>>
SenderLine == <<Token("sender", <<"Bob">>)>>
IdLine == <<Token("id", <<2>>)>>
ReplyLine == <<Token("reply", <<1>>)>>
BodyLine == <<Word(<<"privet">>)>>
AnswerLine == <<Word(<<"da">>), Hashtag(TagAnswer), Hashtag(TagTopic), Hashtag(TagAnswer)>>
TopicLine == <<Hashtag(TagTopic)>>
QuoteLine == <<Word(<<"da">>), Token("rule", <<Bar>>), Hashtag(TagMotive)>>
DateReplyLine == <<Token("date", <<"d", "2">>), Token("reply", <<2>>)>>

(* paragraph.text.strip() of the paragraphs a document is made of *)
Paragraphs ==
    {<<>>, StartLine, DividerLine, DashLine, BoxLine, HeaderLine, SenderLine, IdLine,
     ReplyLine, BodyLine, AnswerLine, TopicLine, QuoteLine, DateReplyLine}

(* lines 45-47 *)
InitParser ==
    /\ messages = <<>>
    /\ current_message = <<>>
    /\ paragraphs_read = 0
    /\ paragraph_text = <<>>
    /\ pc = "parsing"
    /\ log = <<>>
    /\ GrouperIdle
    /\ TagsIdle

NextParagraph ==
    /\ pc = "parsing"
    /\ paragraphs_read < MaxParagraphs
    /\ paragraphs_read' = paragraphs_read + 1

(* lines 50-53 *)
SkipEmptyParagraph ==
    /\ NextParagraph
    /\ <<>> \in Paragraphs
    /\ paragraph_text' = <<>>
    /\ UNCHANGED <<tags_vars, messages, pc, current_message, log, grouper_vars>>

(* Mutant: the previous message is appended whether it has text or not *)
StartMessageKeepEmpty ==
    /\ NextParagraph
    /\ \E text \in Paragraphs \ {<<>>} :
        /\ IsMessageStart(text)
        /\ paragraph_text' = text
        /\ messages' = IF current_message # <<>>
                       THEN Append(messages, current_message[1])
                       ELSE messages
        /\ current_message' = <<CreateNewMessage(text)>>
    /\ UNCHANGED <<tags_vars, pc, log, grouper_vars>>

(* lines 56-63 *)
StartMessage ==
    /\ NextParagraph
    /\ \E text \in Paragraphs \ {<<>>} :
        /\ IsMessageStart(text)
        /\ paragraph_text' = text
        /\ messages' = IF current_message # <<>> /\ current_message[1].text # <<>>
                       THEN Append(messages, current_message[1])
                       ELSE messages
        /\ current_message' = <<CreateNewMessage(text)>>
    /\ UNCHANGED <<tags_vars, pc, log, grouper_vars>>

(* line 66, current_message is None *)
SkipOrphanParagraph ==
    /\ NextParagraph
    /\ current_message = <<>>
    /\ \E text \in Paragraphs \ {<<>>} :
        /\ ~IsMessageStart(text)
        /\ paragraph_text' = text
    /\ UNCHANGED <<tags_vars, messages, pc, current_message, log, grouper_vars>>

(* lines 66-67 *)
ProcessParagraph ==
    /\ NextParagraph
    /\ current_message # <<>>
    /\ \E text \in Paragraphs \ {<<>>} :
        /\ ~IsMessageStart(text)
        /\ paragraph_text' = text
        /\ \E unique_tags \in UniqueTagLists(FindAllTags(text)) :
               current_message' =
                   <<ProcessMessageContent(current_message[1], text, unique_tags)>>
    /\ UNCHANGED <<tags_vars, messages, pc, log, grouper_vars>>

(* lines 70-81: the end of the document *)
FinishParsing ==
    /\ pc = "parsing"
    /\ messages' = IdentifyViolettaAnswers(
                       IF current_message # <<>> /\ current_message[1].text # <<>>
                       THEN Append(messages, current_message[1])
                       ELSE messages)
    /\ pc' = "parsed"
    /\ UNCHANGED <<tags_vars, parser_vars, log, grouper_vars>>

NextParser ==
    \/ SkipEmptyParagraph
    \/ StartMessage
    \/ SkipOrphanParagraph
    \/ ProcessParagraph
    \/ FinishParsing

SpecParser == InitParser /\ [][NextParser]_vars

----------------------------------------------------------------------------
(* main(), one action per statement that can end the run or fail *)

(* What parser.parse_word_document can return to main() *)
ParseResults ==
    {<<>>} \cup
    {MessageList(shapes, ids) :
        shapes \in [1..NumMsgs -> {shape \in MessageShapes : shape.sender = "Alice"}],
        ids \in IdLines}

InitMain ==
    /\ messages = <<>>
    /\ pc = "main"
    /\ current_message = <<>>
    /\ paragraphs_read = 0
    /\ paragraph_text = <<>>
    /\ log = <<>>
    /\ GrouperIdle
    /\ TagsIdle

MainStep(from, event, to) ==
    /\ pc = from
    /\ log' = Append(log, event)
    /\ pc' = to

(* lines 950-953 *)
MainInputMissing ==
    /\ MainStep("main", "input_missing", "exit")
    /\ UNCHANGED <<tags_vars, messages, parser_vars, grouper_vars>>

(* lines 957-961 *)
MainParse ==
    /\ pc = "main"
    /\ \/ /\ messages' \in ParseResults
          /\ pc' = "parsed"
          /\ log' = log
       \/ /\ messages' = messages
          /\ pc' = "except"
          /\ log' = Append(log, "parse_failed")
    /\ UNCHANGED <<tags_vars, parser_vars, grouper_vars>>

(* lines 963-965 *)
MainNoMessages ==
    /\ messages = <<>>
    /\ MainStep("parsed", "no_messages", "exit")
    /\ UNCHANGED <<tags_vars, messages, parser_vars, grouper_vars>>

(* lines 968-969 *)
MainGroup ==
    /\ pc = "parsed"
    /\ messages # <<>>
    /\ qa_pairs' = GroupQuestionsAnswers(messages)
    /\ pc' = "grouped"
    /\ UNCHANGED <<tags_vars, messages, log, parser_vars, violetta_answers, next_answer,
                   processed_questions, threads, returned>>

(* lines 971-973 *)
MainNoPairs ==
    /\ qa_pairs = <<>>
    /\ MainStep("grouped", "no_pairs", "exit")
    /\ UNCHANGED <<tags_vars, messages, parser_vars, grouper_vars>>

(* line 976: db_manager.save_to_sqlite returns or raises *)
MainStore ==
    /\ qa_pairs # <<>>
    /\ \/ MainStep("grouped", "store", "stored")
       \/ MainStep("grouped", "store_failed", "except")
    /\ UNCHANGED <<tags_vars, messages, parser_vars, grouper_vars>>

(* Mutant: a failure of the export is caught on the spot and the run goes on *)
MainJsonSwallowsError ==
    /\ \/ MainStep("stored", "json", "exported")
       \/ MainStep("stored", "json_failed", "exported")
    /\ UNCHANGED <<tags_vars, messages, parser_vars, grouper_vars>>

(* line 977: db_manager.create_json_database returns or raises *)
MainJson ==
    /\ \/ MainStep("stored", "json", "exported")
       \/ MainStep("stored", "json_failed", "except")
    /\ UNCHANGED <<tags_vars, messages, parser_vars, grouper_vars>>

(* line 980: create_interactive_html returns or raises *)
MainHtml ==
    /\ \/ MainStep("exported", "html", "rendered")
       \/ MainStep("exported", "html_failed", "except")
    /\ UNCHANGED <<tags_vars, messages, parser_vars, grouper_vars>>

(* lines 983-1022 *)
MainSummary ==
    /\ MainStep("rendered", "summary", "exit")
    /\ UNCHANGED <<tags_vars, messages, parser_vars, grouper_vars>>

(* lines 1024-1027 *)
MainExcept ==
    /\ MainStep("except", "error", "exit")
    /\ UNCHANGED <<tags_vars, messages, parser_vars, grouper_vars>>

NextMain ==
    \/ MainInputMissing
    \/ MainParse
    \/ MainNoMessages
    \/ MainGroup
    \/ MainNoPairs
    \/ MainStore
    \/ MainJson
    \/ MainHtml
    \/ MainSummary
    \/ MainExcept

SpecMain == InitMain /\ [][NextMain]_vars

----------------------------------------------------------------------------
(* DatabaseManager._sort_tags_alphabetical *)

TagTopicUpper == <<"#", "Tema">>
TagAnswerTopic == <<"#", "Otvet", "Violetty", "Tema">>

(* The tags a library can hold *)
TagUniverse == {TagAnswer, TagAnswerLower, TagAnswerTopic, TagTopic, TagTopicUpper,
                TagMotive}

(* The place of a run in the order of Python's str comparison, which is the  *)
(* order of the code points of the first characters: '#' < 'В' < 'М' < 'О'   *)
(* < 'Т' < 'в' < 'м' < 'о' < 'т'.                                            *)
RunRank(c) ==
    CASE c = "#" -> 1
      [] c = "Violetty" -> 2 [] c = "Motiv" -> 3 [] c = "Otvet" -> 4 [] c = "Tema" -> 5
      [] c = "violetty" -> 6 [] c = "motiv" -> 7 [] c = "otvet" -> 8 [] c = "tema" -> 9

(* A number that orders the strings of up to four runs as str does: run by   *)
(* run, a proper prefix before the longer string.                            *)
StrKey(s) ==
    LET Place(i) == IF i <= Len(s) THEN RunRank(s[i]) ELSE 0
    IN  1000 * Place(1) + 100 * Place(2) + 10 * Place(3) + Place(4)

(* list(tags): the elements of the set, in an order the hashing decides *)
ListsOfSet(set) ==
    {order \in [1..Cardinality(set) -> set] :
        \A i, j \in DOMAIN order : i # j => order[i] # order[j]}

(* list.remove(x): the list without the first occurrence of x *)
Remove(list, x) ==
    LET first == CHOOSE i \in 1..Len(list) :
                     list[i] = x /\ \A j \in 1..i - 1 : list[j] # x
    IN  SubSeq(list, 1, first - 1) \o SubSeq(list, first + 1, Len(list))

(* Mutant: the rest is sorted by the tags as written, without lower() *)
SortTagsCaseSensitive(list) ==
    LET IsAnswerTag(tag) == Contains(LowerStr(tag), AnswerMarker)
        found == SelectSeq(list, IsAnswerTag)
        answer_tag == IF found = <<>> THEN <<>> ELSE <<found[1]>>
        rest == IF answer_tag = <<>> THEN list ELSE Remove(list, answer_tag[1])
    IN  answer_tag \o SortBy(rest, [tag \in Range(rest) |-> StrKey(tag)])

(* lines 416-433, for tags_list = list; answer_tag is <<>> for None *)
SortTagsAlphabetical(list) ==
    LET IsAnswerTag(tag) == Contains(LowerStr(tag), AnswerMarker)
        found == SelectSeq(list, IsAnswerTag)
        answer_tag == IF found = <<>> THEN <<>> ELSE <<found[1]>>
        rest == IF answer_tag = <<>> THEN list ELSE Remove(list, answer_tag[1])
    IN  answer_tag \o SortBy(rest, [tag \in Range(rest) |-> StrKey(LowerStr(tag))])

InitTags ==
    /\ messages = <<>>
    /\ pc = "tags"
    /\ current_message = <<>>
    /\ paragraphs_read = 0
    /\ paragraph_text = <<>>
    /\ log = <<>>
    /\ GrouperIdle
    /\ all_tags \in SUBSET TagUniverse
    /\ tags_list = <<>>
    /\ sorted_tags = <<>>

(* _sort_tags_alphabetical(all_tags), lines 411-433 *)
SortTags ==
    /\ pc = "tags"
    /\ \E order \in ListsOfSet(all_tags) :
        /\ tags_list' = order
        /\ sorted_tags' = SortTagsAlphabetical(order)
    /\ pc' = "tags_sorted"
    /\ UNCHANGED <<all_tags, messages, log, parser_vars, grouper_vars>>

NextTags == SortTags

SpecTags == InitTags /\ [][NextTags]_vars

----------------------------------------------------------------------------
(* Properties of QAGrouper.group_questions_answers *)

(* How often id occurs in the sequence ids *)
Count(ids, id) == Cardinality({i \in 1..Len(ids) : ids[i] = id})

(* The two id lists have the same sorted tuple *)
SameKey(ids1, ids2) ==
    \A id \in Range(ids1) \cup Range(ids2) : Count(ids1, id) = Count(ids2, id)

(* The message an id resolves to: the last message of the list carrying it *)
Resolves(id, i) ==
    /\ id # 0
    /\ i \in 1..Len(messages)
    /\ messages[i].message_id = id
    /\ \A j \in 1..Len(messages) : messages[j].message_id = id => j <= i

Finished == pc = "idle" /\ returned # <<>>

(* C1: no two pairs of the output have the same sorted tuple of non-empty   *)
(* question ids.                                                             *)
C1_QuestionKeysUnique ==
    \A i, j \in 1..Len(qa_pairs) :
        i # j => ~SameKey(qa_pairs[i].question_ids, qa_pairs[j].question_ids)

(* Two official answers reply to different messages of one question thread: *)
(* the first has produced the pair, the second was skipped.                  *)
C1_Witness ==
    /\ Finished
    /\ Len(qa_pairs) = 1
    /\ \E a, b \in Range(violetta_answers) :
        /\ a < b
        /\ messages[a].reply_to # messages[b].reply_to
        /\ \E m, n \in Range(threads[1].question_thread) :
            /\ m # n
            /\ Resolves(messages[a].reply_to, m)
            /\ Resolves(messages[b].reply_to, n)

(* The ids of the list are unique (section 3 of the specification) *)
UniqueIds(msgs) ==
    \A i, j \in 1..Len(msgs) :
        i # j /\ msgs[i].message_id # 0 => msgs[i].message_id # msgs[j].message_id

(* C2: every emitted pair has a non-empty answer thread (answer_ids lists    *)
(* the ids of that thread, so an empty thread has no answer id at all).      *)
(* Stated for lists with unique ids.                                         *)
C2_AnswerThreadNonEmpty ==
    UniqueIds(messages) =>
        \A k \in 1..Len(qa_pairs) :
            /\ threads[k].answer_thread # <<>>
            /\ Range(qa_pairs[k].answer_ids) \subseteq
                   {messages[i].message_id : i \in Range(threads[k].answer_thread)}

(* C3: the question thread of a pair whose answer replies to m is [m] when   *)
(* m has no reply_to, and otherwise all the messages that reply to what m    *)
(* replies to, have m's sender and are no official answers.                  *)
C3_QuestionThreadIsSiblings ==
    \A k \in 1..Len(qa_pairs) :
        \E m \in 1..Len(messages) :
            /\ Resolves(messages[threads[k].answer].reply_to, m)
            /\ LET thread == threads[k].question_thread
                   siblings == {i \in 1..Len(messages) :
                                   /\ messages[i].reply_to = messages[m].reply_to
                                   /\ messages[i].sender = messages[m].sender
                                   /\ ~messages[i].is_violetta_answer}
               IN  /\ IF messages[m].reply_to = 0
                      THEN thread = <<m>>
                      ELSE /\ Range(thread) = siblings
                           /\ Len(thread) = Cardinality(siblings)
                   /\ Range(qa_pairs[k].question_ids) =
                          {messages[i].message_id : i \in Range(thread)} \ {0}

(* The answer replies to the later of two messages of one sender that reply  *)
(* to the same message; a third message replies to it too, from another      *)
(* sender.                                                                   *)
C3_Witness ==
    \E k \in 1..Len(qa_pairs) :
        LET thread == threads[k].question_thread
            m == messages[threads[k].answer].reply_to
        IN  /\ Len(thread) = 2
            /\ \E i, j \in Range(thread) : i < j /\ Resolves(m, j)
            /\ \E o \in 1..Len(messages) :
                /\ messages[o].reply_to = messages[thread[1]].reply_to
                /\ messages[o].sender # messages[thread[1]].sender
                /\ ~messages[o].is_violetta_answer

(* The number a message is ordered by *)
NumberOf(i) ==
    IF messages[i].message_number = <<>> THEN 0 ELSE ToInt(messages[i].message_number)

Ascending(thread) ==
    \A i, j \in 1..Len(thread) : i < j => NumberOf(thread[i]) <= NumberOf(thread[j])

(* C4: question_ids and answer_ids list their messages by ascending          *)
(* sequence number, a message without a number counting as 0.                *)
C4_ThreadsAscending ==
    \A k \in 1..Len(qa_pairs) :
        /\ Ascending(threads[k].question_thread)
        /\ Ascending(threads[k].answer_thread)
        /\ qa_pairs[k].question_ids = ThreadIds(messages, threads[k].question_thread)
        /\ qa_pairs[k].answer_ids = ThreadIds(messages, threads[k].answer_thread)

(* A question thread that the sort has reordered: its first message has no   *)
(* number and comes later in the list than its second, which has one; both   *)
(* have an id.                                                               *)
C4_Witness ==
    \E k \in 1..Len(qa_pairs) :
        LET thread == threads[k].question_thread
        IN  /\ Len(thread) >= 2
            /\ thread[1] > thread[2]
            /\ messages[thread[1]].message_number = <<>>
            /\ NumberOf(thread[2]) > 0
            /\ Len(qa_pairs[k].question_ids) = Len(thread)

RemoveAt(s, i) == SubSeq(s, 1, i - 1) \o SubSeq(s, i + 1, Len(s))

Unresolved(a) ==
    /\ messages[a].is_violetta_answer
    /\ messages[a].reply_to # 0
    /\ \A i \in 1..Len(messages) : messages[i].message_id # messages[a].reply_to

(* C5: an official answer whose reply_to is no message's id occurs in no     *)
(* pair, and the output is the output for the list without that answer.      *)
(* Stated for lists with unique ids.                                         *)
C5_UnresolvedAnswerIsInert ==
    Finished /\ UniqueIds(messages) =>
        \A a \in 1..Len(messages) :
            Unresolved(a) =>
                /\ \A k \in 1..Len(qa_pairs) :
                       /\ a \notin Range(threads[k].question_thread)
                       /\ a \notin Range(threads[k].answer_thread)
                /\ qa_pairs = GroupQuestionsAnswers(RemoveAt(messages, a))

(* C6: a second call returns what the first call returned, pair by pair,     *)
(* and in each result every question key occurs once.                        *)
C6_RerunReturnsTheSame ==
    \A r \in 1..Len(returned) :
        /\ returned[r] = returned[1]
        /\ \A i, j \in 1..Len(returned[r]) :
               i # j => ~SameKey(returned[r][i].question_ids,
                                 returned[r][j].question_ids)

(* The second call has returned, and the first call had emitted pairs and    *)
(* skipped an answer whose thread was processed.                             *)
C6_Witness ==
    /\ Len(returned) = 2
    /\ Len(returned[1]) >= 1
    /\ \E a \in Range(violetta_answers) :
        /\ messages[a].reply_to # 0
        /\ FindQuestionThread(messages, messages[a].reply_to) # <<>>
        /\ \A k \in 1..Len(threads) : threads[k].answer # a

(* C9: the tags of a pair are the union of the tags of its answer thread     *)
C9_TagsOfAnswerThread ==
    \A k \in 1..Len(qa_pairs) :
        /\ \A tag \in qa_pairs[k].tags :
               \E i \in Range(threads[k].answer_thread) :
                   \E t \in 1..Len(messages[i].tags) : messages[i].tags[t] = tag
        /\ \A i \in Range(threads[k].answer_thread) :
               \A t \in 1..Len(messages[i].tags) : messages[i].tags[t] \in qa_pairs[k].tags

(* A pair of two answers that share a tag, whose question carries a tag that *)
(* no answer of the thread carries.                                          *)
C9_Witness ==
    \E k \in 1..Len(qa_pairs) :
        /\ \E i, j \in Range(threads[k].answer_thread) :
               i # j /\ Range(messages[i].tags) \cap Range(messages[j].tags) # {}
        /\ \E q \in Range(threads[k].question_thread) :
               \E t \in 1..Len(messages[q].tags) :
                   messages[q].tags[t] \notin qa_pairs[k].tags

(* C12: the answer thread of a pair holds, once each, exactly the official   *)
(* answers of the list whose reply_to is a non-empty id of a message of the  *)
(* pair's question thread; answer_ids are the ids of these messages.         *)
C12_AnswerThreadIsAllAnswers ==
    \A k \in 1..Len(qa_pairs) :
        LET question_ids == {messages[q].message_id :
                                q \in Range(threads[k].question_thread)} \ {0}
            answers == {i \in 1..Len(messages) :
                           /\ messages[i].is_violetta_answer
                           /\ messages[i].reply_to \in question_ids}
        IN  /\ Range(threads[k].answer_thread) = answers
            /\ Len(threads[k].answer_thread) = Cardinality(answers)
            /\ Range(qa_pairs[k].answer_ids) =
                   {messages[i].message_id : i \in answers} \ {0}

(* A pair whose answer thread holds, next to the driving answer, an answer   *)
(* that comes later in the list, is from another sender and replies to       *)
(* another message of the question thread.                                   *)
C12_Witness ==
    \E k \in 1..Len(qa_pairs) :
        \E later \in Range(threads[k].answer_thread) :
            /\ later > threads[k].answer
            /\ messages[later].sender # messages[threads[k].answer].sender
            /\ messages[later].reply_to # messages[threads[k].answer].reply_to
            /\ messages[later].message_id \in Range(qa_pairs[k].answer_ids)

(* The official answers that can produce a pair with the question ids ids:   *)
(* their reply_to resolves to a question thread with these ids               *)
Drivers(ids) ==
    {a \in 1..Len(messages) :
        /\ messages[a].is_violetta_answer
        /\ messages[a].reply_to # 0
        /\ FindQuestionThread(messages, messages[a].reply_to) # <<>>
        /\ SameKey(ThreadIds(messages,
                       FindQuestionThread(messages, messages[a].reply_to)), ids)}

(* C13: each pair was emitted for the first official answer of the list      *)
(* that leads to its question thread, and the pairs are in the order of      *)
(* these answers in the list.                                                *)
C13_PairsInAnswerOrder ==
    /\ \A k \in 1..Len(qa_pairs) :
        /\ threads[k].answer \in Drivers(qa_pairs[k].question_ids)
        /\ \A a \in Drivers(qa_pairs[k].question_ids) : threads[k].answer <= a
    /\ \A k, l \in 1..Len(qa_pairs) :
        k < l => threads[k].answer < threads[l].answer

(* Two pairs whose questions are in the list in the opposite order: the      *)
(* question of the first pair comes after the question of the second, and    *)
(* has the higher sequence number.                                           *)
C13_Witness ==
    /\ Finished
    /\ Len(qa_pairs) >= 2
    /\ LET first == threads[1].question_thread[1]
           second == threads[2].question_thread[1]
       IN  /\ first > second
           /\ NumberOf(first) > NumberOf(second)
           /\ NumberOf(second) > 0

(* C16: no step of group_questions_answers changes the message list: the    *)
(* messages, their order and every field of every message stay as they are.  *)
C16_MessagesUnchanged ==
    [][/\ Len(messages') = Len(messages)
       /\ \A i \in 1..Len(messages) :
              /\ messages'[i].message_number = messages[i].message_number
              /\ messages'[i].sender = messages[i].sender
              /\ messages'[i].date = messages[i].date
              /\ messages'[i].message_id = messages[i].message_id
              /\ messages'[i].reply_to = messages[i].reply_to
              /\ messages'[i].text = messages[i].text
              /\ messages'[i].tags = messages[i].tags
              /\ messages'[i].is_violetta_answer = messages[i].is_violetta_answer]_vars

(* The call has returned a pair whose question thread the sort has put in    *)
(* another order than the list has: sorting the list itself would have       *)
(* changed it.                                                               *)
C16_Witness ==
    /\ Finished
    /\ \E k \in 1..Len(qa_pairs) :
        /\ Len(threads[k].question_thread) >= 2
        /\ threads[k].question_thread[1] > threads[k].question_thread[2]
        /\ threads[k].answer_thread # <<>>

(* C17: for a list with unique ids, two different pairs share no question id *)
(* and no answer id, and no id is a question id of one and an answer id of   *)
(* the other.                                                                *)
C17_PairsShareNoId ==
    UniqueIds(messages) =>
        \A k, l \in 1..Len(qa_pairs) :
            k # l =>
                /\ Range(qa_pairs[k].question_ids) \cap Range(qa_pairs[l].question_ids) = {}
                /\ Range(qa_pairs[k].answer_ids) \cap Range(qa_pairs[l].answer_ids) = {}
                /\ Range(qa_pairs[k].question_ids) \cap Range(qa_pairs[l].answer_ids) = {}

(* Two pairs of a list with unique ids: the question of the second replies   *)
(* to the question of the first, and each has an answer.                     *)
C17_Witness ==
    /\ Finished
    /\ UniqueIds(messages)
    /\ Len(qa_pairs) = 2
    /\ \E k, l \in 1..2 :
        /\ k # l
        /\ qa_pairs[k].answer_ids # <<>>
        /\ qa_pairs[l].answer_ids # <<>>
        /\ qa_pairs[k].question_ids # <<>>
        /\ messages[threads[l].question_thread[1]].reply_to
               = messages[threads[k].question_thread[1]].message_id

(* C18: for a list with unique ids, every official answer with an id whose   *)
(* reply_to is the id of a message of the list is among the answer_ids of a  *)
(* pair of the output.                                                       *)
C18_NoAnswerLost ==
    Finished /\ UniqueIds(messages) =>
        \A a \in 1..Len(messages) :
            /\ messages[a].is_violetta_answer
            /\ messages[a].message_id # 0
            /\ \E m \in 1..Len(messages) : Resolves(messages[a].reply_to, m)
            => \E k \in 1..Len(qa_pairs) :
                   messages[a].message_id \in Range(qa_pairs[k].answer_ids)

----------------------------------------------------------------------------
(* Properties of ChatParser.parse_word_document *)

HasBody == current_message # <<>> /\ current_message[1].text # <<>>

(* C7: every message of the list has a non-empty body; the list grows only   *)
(* by the current message, and only when that has a body; and a current      *)
(* message with a body is appended when a new message starts or the parse    *)
(* ends.                                                                     *)
C7_OnlyMessagesWithBody ==
    /\ [](\A i \in 1..Len(messages) : messages[i].text # <<>>)
    /\ [][/\ Len(messages') # Len(messages) /\ pc = "parsing" =>
              /\ HasBody
              /\ Len(messages') = Len(messages) + 1
              /\ messages'[Len(messages')].text = current_message[1].text
          /\ /\ HasBody
             /\ pc = "parsing"
             /\ pc' = "parsed" \/ current_message'[1].text = <<>>
             => Len(messages') = Len(messages) + 1]_vars

(* The parse has ended with a message in the list and with a last message    *)
(* that received an id and a sender but no body, and is not in the list.      *)
C7_Witness ==
    /\ pc = "parsed"
    /\ Len(messages) >= 1
    /\ current_message # <<>>
    /\ current_message[1].text = <<>>
    /\ current_message[1].message_id # 0
    /\ current_message[1].sender # ""

(* C8: after the parse, is_violetta_answer is set exactly for the messages   *)
(* with a tag whose lower-cased runs contain the runs of the marker.         *)
C8_AnswerFlagIffMarkerTag ==
    pc = "parsed" =>
        \A i \in 1..Len(messages) :
            messages[i].is_violetta_answer <=>
                \E t \in 1..Len(messages[i].tags) :
                    \E p \in 1..Len(messages[i].tags[t]) :
                        \A q \in 1..Len(AnswerMarker) :
                            /\ p + q - 1 <= Len(messages[i].tags[t])
                            /\ Lower(messages[i].tags[t][p + q - 1]) = AnswerMarker[q]

(* The parse has returned a message flagged for a tag written in capitals    *)
(* and a message with tags that is not flagged.                              *)
C8_Witness ==
    /\ pc = "parsed"
    /\ \E i, j \in 1..Len(messages) :
        /\ messages[i].is_violetta_answer
        /\ TagAnswer \in Range(messages[i].tags)
        /\ TagAnswerLower \notin Range(messages[i].tags)
        /\ ~messages[j].is_violetta_answer
        /\ messages[j].tags # <<>>

----------------------------------------------------------------------------
(* Properties of main() *)

Sinks == {"store", "json", "html"}
Failures == {"store_failed", "json_failed", "html_failed"}

Before(first, second) ==
    \A j \in 1..Len(log) : log[j] = second => \E i \in 1..j - 1 : log[i] = first

(* C10: the sinks run in the order store, export, render; after a failed     *)
(* sink only the error report follows; the summary follows all three sinks.  *)
C10_SinksInOrderOrAbort ==
    /\ Before("store", "json") /\ Before("store", "json_failed")
    /\ Before("json", "html") /\ Before("json", "html_failed")
    /\ Before("html", "summary")
    /\ \A i, j \in 1..Len(log) :
           /\ i < j /\ log[i] \in Failures => log[j] = "error"
           /\ i # j /\ log[i] \in Sinks \cup Failures \cup {"summary"} => log[i] # log[j]

(* The store has run, the export has failed, and the run has ended with the  *)
(* error report and nothing else.                                            *)
C10_Witness ==
    /\ pc = "exit"
    /\ log = <<"store", "json_failed", "error">>

----------------------------------------------------------------------------
(* Properties of DatabaseManager._sort_tags_alphabetical *)

MarkerTag(tag) ==
    \E p \in 1..Len(tag) - 1 : Lower(tag[p]) = "otvet" /\ Lower(tag[p + 1]) = "violetty"

(* a.lower() <= b.lower() in the order of str: at the first place where the  *)
(* two differ, a has ended or has the run of the earlier letter              *)
LowerLeq(a, b) ==
    \/ /\ Len(a) <= Len(b)
       /\ \A i \in 1..Len(a) : Lower(a[i]) = Lower(b[i])
    \/ \E p \in 1..Len(a) :
        /\ p <= Len(b)
        /\ \A i \in 1..p - 1 : Lower(a[i]) = Lower(b[i])
        /\ RunRank(Lower(a[p])) < RunRank(Lower(b[p]))

(* C11: the list returned holds every tag of the set once; when a tag of the *)
(* set contains the marker, the first tag of the list is such a tag and the  *)
(* tags after it are in case-insensitive alphabetical order; without such a  *)
(* tag the whole list is in that order.                                      *)
C11_AnswerTagFirstRestSorted ==
    pc = "tags_sorted" =>
        /\ Range(sorted_tags) = all_tags
        /\ Len(sorted_tags) = Cardinality(all_tags)
        /\ LET pinned == IF \E tag \in all_tags : MarkerTag(tag) THEN 1 ELSE 0
           IN  /\ pinned = 1 => MarkerTag(sorted_tags[1])
               /\ \A i, j \in pinned + 1..Len(sorted_tags) :
                      i < j => LowerLeq(sorted_tags[i], sorted_tags[j])

(* A set with two marker tags, a tag that sorts before them and two tags     *)
(* that differ in case only: the list starts with a marker tag, the other    *)
(* marker tag follows the tag that sorts before it.                          *)
C11_Witness ==
    /\ pc = "tags_sorted"
    /\ {TagTopic, TagTopicUpper, TagMotive} \subseteq all_tags
    /\ Len(sorted_tags) >= 5
    /\ MarkerTag(sorted_tags[1])
    /\ sorted_tags[2] = TagMotive
    /\ MarkerTag(sorted_tags[3])
    /\ sorted_tags[1] # tags_list[1]

----------------------------------------------------------------------------
(* Properties of ChatParser._process_message_content *)

(* The step hands a block to _process_message_content for the current message *)
BlockProcessed ==
    /\ pc = "parsing"
    /\ paragraphs_read' = paragraphs_read + 1
    /\ current_message # <<>>
    /\ paragraph_text' # <<>>
    /\ ~IsMessageStart(paragraph_text')

(* C14: a block that matches the pattern of a field the current message has  *)
(* a value for leaves that value as it is, and leaves the body and the tags  *)
(* as they are.                                                              *)
C14_FirstMatchWins ==
    [][BlockProcessed =>
          LET before == current_message[1]
              after == current_message'[1]
              block == paragraph_text'
              Kept == after.text = before.text /\ after.tags = before.tags
          IN  /\ before.sender # "" /\ HasKind(block, "sender") =>
                     after.sender = before.sender /\ Kept
              /\ before.date # <<>> /\ HasKind(block, "date") =>
                     after.date = before.date /\ Kept
              /\ before.message_id # 0 /\ HasKind(block, "id") =>
                     after.message_id = before.message_id /\ Kept
              /\ before.reply_to # 0 /\ HasKind(block, "reply") =>
                     after.reply_to = before.reply_to /\ Kept]_vars

(* The last block of a message with sender, date, id, reply_to and body was  *)
(* a block with another date and another reply_to; the message has the date  *)
(* and the reply_to of the earlier blocks, and the body it had.              *)
C14_Witness ==
    /\ pc = "parsing"
    /\ paragraph_text = DateReplyLine
    /\ current_message # <<>>
    /\ current_message[1].sender = "Alice"
    /\ current_message[1].date = <<"d", "1">>
    /\ current_message[1].message_id = 1
    /\ current_message[1].reply_to = 1
    /\ current_message[1].text = <<BodyLine>>

(* The block is made of divider glyphs and nothing else *)
Decorative(block) == \A i \in 1..Len(block) : block[i].kind = "rule"

(* C15: a block of the current message that is not decorative and matches    *)
(* no metadata pattern becomes the next line of the body and its hashtags    *)
(* are added to the tags; a decorative block changes nothing.                *)
C15_ContentBlocksReachBody ==
    [][BlockProcessed =>
          LET before == current_message[1]
              after == current_message'[1]
              block == paragraph_text'
          IN  /\ Decorative(block) => after = before
              /\ ~Decorative(block) /\ ~IsMetadata(block) =>
                     /\ after.text = Append(before.text, block)
                     /\ Len(after.tags) >= Len(before.tags)
                     /\ SubSeq(after.tags, 1, Len(before.tags)) = before.tags
                     /\ Range(SubSeq(after.tags, Len(before.tags) + 1, Len(after.tags)))
                            = Range(FindAllTags(block))]_vars

====
